---- MODULE Spec2Model ----
(***************************************************************************)
(* The tree reconciliation of ts-morph: after a text insertion the file is *)
(* reparsed and the wrappers (Node objects) of the previous tree are moved *)
(* onto the nodes of the new tree by a lockstep walk                       *)
(* (insertIntoSyntaxList, StraightReplacementNodeHandler).                 *)
(*                                                                         *)
(* Offsets are 0-based as in the source; the character at offset o of a    *)
(* text is text[o + 1].  A compiler node is identified by the parse that   *)
(* produced it and its path from the root: [rev, path].  A wrapper is      *)
(* identified by its index in the sequence wrappers.                       *)
(***************************************************************************)
EXTENDS Integers, Sequences, FiniteSets, TLC

(* Bounds of the model. *)
MaxEdits == 1
MaxItems == 2
MaxRemovals == 1
MaxMembers == 2
MaxDepth == 3
MaxTextLen == 3
MaxTasks == 2

(* The texts a file starts with and the texts an edit inserts. *)
InitTexts == { <<";">>, <<"{", ";", "}">>, <<";", " ", "{", "}">>, <<"c", "{", "}">> }
NewTexts  == { <<>>, <<";">>, <<" ">>, <<"{">>, <<"}">>, <<";", ";">>, <<" ", "c", "x">> }

(* The texts of the files children are removed from, and the texts         *)
(* inserted into such a file afterwards.                                   *)
RemovalInitTexts == { <<";", ";", "{", ";", "}">>, <<"{", "c", ";", "x", "}">> }
RemovalNewTexts  == { <<>>, <<";">> }

(* The texts of the files declarations are inserted into.  A declaration   *)
(* is written "c{}" and its members ";" and "x"; " " separates.            *)
EnumInitTexts == { <<>>, <<";">>, <<"{", ";", "}">>, <<"c", "{", ";", "}">> }
MemberTexts   == { ";", "x" }

NoNode  == 0
NoError == "none"

VARIABLES
    texts,      \* texts[rev]: the text parse number rev was made from
    trees,      \* trees[rev]: path -> [kind, pos, end] of parse number rev
    wrappers,   \* wrappers[w]: [node, forgotten], the Node objects ever made
    cache,      \* compiler node -> wrapper: the factory's node cache
    held,       \* the wrappers the caller has obtained through the API
    edits,      \* the number of insertions made so far
    removals,   \* the number of removals made so far
    last,       \* the arguments of the last manipulation
    log,        \* the calls the last manipulation made, in order
    result,     \* how the last manipulation ended: "ok" or the error thrown
    fs,         \* the file system of the host: its directories and files
    tasks       \* the pending calls of the asynchronous utilities

vars == <<texts, trees, wrappers, cache, held, edits, removals, last, log, result, fs,
         tasks>>

-----------------------------------------------------------------------------
(* The external parser: a statement list of ";" (EmptyStatement), "x"     *)
(* (ExpressionStatement), "{ ... }" (Block) and "c x.. { ... }"            *)
(* (ClassDeclaration: the keyword, the list of its heritage clauses "x"    *)
(* when it has any, and its body); " " is trivia, and so are a "}" that    *)
(* closes nothing and a "/", a comment, with the rest of the text.  As in  *)
(* the TypeScript parser a node's pos includes its                         *)
(* leading trivia, a list starts where the token before it ends and ends   *)
(* where its last child ends, and braces whose "}" is missing have no      *)
(* CloseBraceToken.                                                        *)

RECURSIVE SkipTrivia(_, _, _)
SkipTrivia(text, i, nested) ==
    IF i >= Len(text) THEN i
    ELSE IF text[i + 1] = "/" THEN Len(text)
    ELSE IF text[i + 1] = " " \/ (~nested /\ text[i + 1] = "}")
         THEN SkipTrivia(text, i + 1, nested)
         ELSE i

Info(path, kind, pos, end) ==
    [path |-> path, kind |-> kind, pos |-> pos, end |-> end]

(* The heritage clauses from offset i on, as the children of path. *)
RECURSIVE ParseHeritage(_, _, _, _, _)

(* ParseHeritage with the clause, if any, starting at offset s. *)
ParseHeritageAt(text, i, s, path, idx, acc) ==
    IF s < Len(text) /\ text[s + 1] = "x"
    THEN ParseHeritage(text, s + 1, path, idx + 1,
                       acc \cup {Info(Append(path, idx), "HeritageClause", i, s + 1)})
    ELSE [nodes |-> acc, end |-> i]

ParseHeritage(text, i, path, idx, acc) ==
    ParseHeritageAt(text, i, SkipTrivia(text, i, TRUE), path, idx, acc)

RECURSIVE ParseList(_, _, _, _, _, _)

(* The braces at offset s whose list is inner and whose "}", if any, is at *)
(* offset t.                                                               *)
ParseBracesClose(text, i, s, me, b, inner, t) ==
    [nodes |-> inner.nodes
                 \cup (IF t < Len(text)
                       THEN {Info(Append(me, b + 2), "CloseBraceToken", inner.end, t + 1)}
                       ELSE {})
                 \cup {Info(Append(me, b), "OpenBraceToken", i, s + 1),
                       Info(Append(me, b + 1), "SyntaxList", s + 1, inner.end)},
     end   |-> IF t < Len(text) THEN t + 1 ELSE inner.end]

ParseBracesOf(text, i, s, me, b, inner) ==
    ParseBracesClose(text, i, s, me, b, inner, SkipTrivia(text, inner.end, TRUE))

(* The "{" at offset s, the list after it and its "}": children b, b + 1   *)
(* and b + 2 of the node me, whose previous token ended at i.              *)
ParseBraces(text, i, s, me, b) ==
    ParseBracesOf(text, i, s, me, b, ParseList(text, s + 1, Append(me, b + 1), TRUE, 1, {}))

(* The nodes and the end of the list item me that starts with the          *)
(* character c at offset s; h are its heritage clauses and br its braces,  *)
(* when it is one that has them.                                           *)
ParseItem(i, s, me, c, h, br) ==
    IF c = ";" THEN [nodes |-> {Info(me, "EmptyStatement", i, s + 1)}, end |-> s + 1]
    ELSE IF c = "x" THEN [nodes |-> {Info(me, "ExpressionStatement", i, s + 1)}, end |-> s + 1]
    ELSE IF c = "{" THEN [nodes |-> br.nodes \cup {Info(me, "Block", i, br.end)},
                          end |-> br.end]
    ELSE [nodes |-> h.nodes \cup br.nodes
                      \cup (IF h.nodes = {} THEN {}
                            ELSE {Info(Append(me, 2), "SyntaxList", s + 1, h.end)})
                      \cup {Info(me, "ClassDeclaration", i, br.end),
                            Info(Append(me, 1), "ClassKeyword", i, s + 1)},
          end |-> br.end]

(* The offset of the "{" of the item, and which child of the item it is. *)
ParseItemBraces(text, i, s, me, c, h, t) ==
    IF c = "{" THEN ParseBraces(text, i, s, me, 1)
    ELSE IF c = "c" /\ t < Len(text) /\ text[t + 1] = "{"
    THEN ParseBraces(text, h.end, t, me, IF h.nodes = {} THEN 2 ELSE 3)
    ELSE [nodes |-> {}, end |-> h.end]

ParseItemHeritage(text, i, s, me, c, h) ==
    ParseItem(i, s, me, c, h,
              ParseItemBraces(text, i, s, me, c, h, SkipTrivia(text, h.end, TRUE)))

(* The list from the item me on, whose first character c is at offset s. *)
ParseListItem(text, i, s, c, me, path, nested, idx, acc, item) ==
    IF c = "}" THEN [nodes |-> acc, end |-> i]
    ELSE ParseList(text, item.end, path, nested, idx + 1, acc \cup item.nodes)

ParseListChar(text, i, s, c, me, path, nested, idx, acc) ==
    ParseListItem(text, i, s, c, me, path, nested, idx, acc,
        ParseItemHeritage(text, i, s, me, c,
            IF c = "c" THEN ParseHeritage(text, s + 1, Append(me, 2), 1, {})
            ELSE [nodes |-> {}, end |-> s + 1]))

ParseListAt(text, i, s, path, nested, idx, acc) ==
    ParseListChar(text, i, s, IF s < Len(text) THEN text[s + 1] ELSE "}",
                  Append(path, idx), path, nested, idx, acc)

ParseList(text, i, path, nested, idx, acc) ==
    ParseListAt(text, i, SkipTrivia(text, i, nested), path, nested, idx, acc)

(* The tree of the nodes ns: path -> [kind, pos, end]. *)
TreeOf(ns) ==
    [p \in {n.path : n \in ns} |->
        LET n == CHOOSE m \in ns : m.path = p
        IN  [kind |-> n.kind, pos |-> n.pos, end |-> n.end]]

ParseFile(text, l) ==
    TreeOf(l.nodes \cup {Info(<<>>, "SourceFile", 0, Len(text)),
                         Info(<<1>>, "SyntaxList", 0, l.end),
                         Info(<<2>>, "EndOfFileToken", l.end, Len(text))})

Parse(text) == ParseFile(text, ParseList(text, 0, <<1>>, FALSE, 1, {}))

-----------------------------------------------------------------------------
(* Compiler nodes. *)

CompilerNode(rev, path) == [rev |-> rev, path |-> path]

IsPrefix(p, q) == Len(p) <= Len(q) /\ SubSeq(q, 1, Len(p)) = p

NumChildren(tree, path) ==
    Cardinality({p \in DOMAIN tree : Len(p) = Len(path) + 1 /\ IsPrefix(path, p)})

(* ts.Node.getChildren(): the children of a compiler node, in order. *)
getCompilerChildren(T, n) ==
    [i \in 1..NumChildren(T[n.rev], n.path) |-> CompilerNode(n.rev, Append(n.path, i))]

(* n is m or lies in the subtree of m. *)
IsUnder(n, m) == n.rev = m.rev /\ IsPrefix(m.path, n.path)

-----------------------------------------------------------------------------
(* The wrapper registry (CompilerFactory and Node).  A registry value R    *)
(* carries the trees, the wrappers, the cache, the log of the calls made   *)
(* and the error thrown so far (NoError while none was).                   *)

NodeOf(R, w)  == R.ws[w].node
InfoOf(R, w)  == R.trees[NodeOf(R, w).rev][NodeOf(R, w).path]
getKind(R, w) == InfoOf(R, w).kind
getPos(R, w)  == InfoOf(R, w).pos

Throw(R, e)   == IF R.err = NoError THEN [R EXCEPT !.err = e] ELSE R
Logged(R, ev) == [R EXCEPT !.log = Append(@, ev)]

CachePut(c, n, w) == [m \in DOMAIN c \cup {n} |-> IF m = n THEN w ELSE c[m]]
CacheDrop(c, S)   == [m \in DOMAIN c \ S |-> c[m]]

(* CompilerFactory.getNodeFromCompilerNode: the wrapper the cache holds    *)
(* for the node, else a new wrapper, which is registered.                  *)
getNodeFromCompilerNode(R, n) ==
    IF n \in DOMAIN R.cache
    THEN [R |-> R, w |-> R.cache[n]]
    ELSE LET w == Len(R.ws) + 1
         IN  [R |-> [R EXCEPT !.ws = Append(@, [node |-> n, forgotten |-> FALSE]),
                              !.cache = CachePut(@, n, w)],
              w |-> w]

(* Node.getChildren(): the wrappers of all children, made at once. *)
RECURSIVE WrapAll(_, _, _, _)
WrapAll(R, nodes, i, acc) ==
    IF i > Len(nodes) THEN [R |-> R, ws |-> acc]
    ELSE LET g == getNodeFromCompilerNode(R, nodes[i])
         IN  WrapAll(g.R, nodes, i + 1, Append(acc, g.w))

getChildren(R, w) == WrapAll(R, getCompilerChildren(R.trees, NodeOf(R, w)), 1, <<>>)

(* Node.getParent(): undefined for the root. *)
getParent(R, w) ==
    LET n == NodeOf(R, w) IN
    IF n.path = <<>> THEN [R |-> R, w |-> NoNode]
    ELSE getNodeFromCompilerNode(R, CompilerNode(n.rev, SubSeq(n.path, 1, Len(n.path) - 1)))

(* CompilerFactory.replaceCompilerNode: the wrapper takes the new node,    *)
(* the cache maps the new node to it, and the mappings of the old node and *)
(* of the nodes below it are dropped.  Kinds must agree.                   *)
replaceCompilerNode(R, w, newNode, by) ==
    LET old == NodeOf(R, w) IN
    IF R.err # NoError THEN R
    ELSE IF getKind(R, w) # R.trees[newNode.rev][newNode.path].kind
    THEN Throw(Logged(R, [op |-> "badReplace", w |-> w, from |-> old, to |-> newNode, by |-> by]),
               "KindMismatchError")
    ELSE Logged([R EXCEPT !.ws[w].node = newNode,
                          !.cache = CachePut(CacheDrop(@, {m \in DOMAIN @ : IsUnder(m, old)}),
                                             newNode, w)],
                [op |-> "replace", w |-> w, from |-> old, to |-> newNode, by |-> by])

-----------------------------------------------------------------------------
(* insertIntoSyntaxList.  ctx holds what the closures capture: syntaxList, *)
(* syntaxListParent, childIndex and insertItemsCount.                      *)

areNodesEqual(R, a, b) ==
    IF a = NoNode /\ b = NoNode THEN TRUE
    ELSE IF a = NoNode \/ b = NoNode THEN FALSE
    ELSE getPos(R, a) = getPos(R, b) /\ getKind(R, a) = getKind(R, b)

RECURSIVE handleNode(_, _, _, _)
RECURSIVE handleNodeLoop(_, _, _, _, _)
RECURSIVE handleSyntaxList(_, _, _, _)
RECURSIVE handleSyntaxListLoop(_, _, _, _, _, _)

(* The for loop of handleNode at the j-th child of newNode; curCh are the  *)
(* compiler children currentNodeChildren iterates over.                    *)
handleNodeLoop(R, ctx, curCh, newCh, j) ==
    IF R.err # NoError \/ j > Len(newCh) THEN R
    ELSE LET nw     == getNodeFromCompilerNode(R, newCh[j])
             par    == getParent(nw.R, nw.w)
             isList == /\ areNodesEqual(par.R, nw.w, ctx.syntaxList)
                       /\ areNodesEqual(par.R, par.w, ctx.syntaxListParent)
             cur    == IF j <= Len(curCh)
                       THEN getNodeFromCompilerNode(par.R, curCh[j])
                       ELSE [R |-> par.R, w |-> NoNode]
             done   == IF isList
                       THEN handleSyntaxList(cur.R, ctx, cur.w, nw.w)
                       ELSE handleNode(cur.R, ctx, cur.w, nw.w)
         IN  handleNodeLoop(done, ctx, curCh, newCh, j + 1)

(* handleNode without the comparison of the kinds. *)
handleNodeNoKindCheck(R, ctx, currentNode, newNode) ==
    IF R.err # NoError THEN R
    ELSE IF currentNode = NoNode THEN Throw(R, "TypeError")
    ELSE LET R0 == Logged(R, [op |-> "handleNode", w |-> currentNode,
                              from |-> NodeOf(R, currentNode), to |-> NodeOf(R, newNode),
                              by |-> "handleNode"])
             R1 == handleNodeLoop(R0, ctx,
                       getCompilerChildren(R.trees, NodeOf(R, currentNode)),
                       getCompilerChildren(R.trees, NodeOf(R, newNode)), 1)
         IN  replaceCompilerNode(R1, currentNode, NodeOf(R1, newNode), "handleNode")

(* handleNode with replaceCompilerNode made before the children are       *)
(* walked.                                                                 *)
handleNodeReplaceFirst(R, ctx, currentNode, newNode) ==
    IF R.err # NoError THEN R
    ELSE IF currentNode = NoNode THEN Throw(R, "TypeError")
    ELSE LET R0 == Logged(R, [op |-> "handleNode", w |-> currentNode,
                              from |-> NodeOf(R, currentNode), to |-> NodeOf(R, newNode),
                              by |-> "handleNode"])
         IN
         IF getKind(R, currentNode) # getKind(R, newNode)
         THEN Throw(R0, "InvalidOperationError")
         ELSE handleNodeLoop(
                  replaceCompilerNode(R0, currentNode, NodeOf(R0, newNode), "handleNode"),
                  ctx,
                  getCompilerChildren(R.trees, NodeOf(R, currentNode)),
                  getCompilerChildren(R.trees, NodeOf(R, newNode)), 1)

(* handleNode calling replaceCompilerNode before its loop and again after   *)
(* it.                                                                     *)
handleNodeReplaceTwice(R, ctx, currentNode, newNode) ==
    IF R.err # NoError THEN R
    ELSE IF currentNode = NoNode THEN Throw(R, "TypeError")
    ELSE LET R0 == Logged(R, [op |-> "handleNode", w |-> currentNode,
                              from |-> NodeOf(R, currentNode), to |-> NodeOf(R, newNode),
                              by |-> "handleNode"])
             again(R1) == IF R1.err # NoError THEN R1
                          ELSE replaceCompilerNode(R1, currentNode, NodeOf(R1, newNode),
                                                   "handleNode")
         IN
         IF getKind(R, currentNode) # getKind(R, newNode)
         THEN Throw(R0, "InvalidOperationError")
         ELSE again(handleNodeLoop(
                  replaceCompilerNode(R0, currentNode, NodeOf(R0, newNode), "handleNode"),
                  ctx,
                  getCompilerChildren(R.trees, NodeOf(R, currentNode)),
                  getCompilerChildren(R.trees, NodeOf(R, newNode)), 1))

(* handleNode without its closing replaceCompilerNode. *)
handleNodeNoReplace(R, ctx, currentNode, newNode) ==
    IF R.err # NoError THEN R
    ELSE IF currentNode = NoNode THEN Throw(R, "TypeError")
    ELSE LET R0 == Logged(R, [op |-> "handleNode", w |-> currentNode,
                              from |-> NodeOf(R, currentNode), to |-> NodeOf(R, newNode),
                              by |-> "handleNode"])
         IN
         IF getKind(R, currentNode) # getKind(R, newNode)
         THEN Throw(R0, "InvalidOperationError")
         ELSE handleNodeLoop(R0, ctx,
                  getCompilerChildren(R.trees, NodeOf(R, currentNode)),
                  getCompilerChildren(R.trees, NodeOf(R, newNode)), 1)

handleNode(R, ctx, currentNode, newNode) ==
    IF R.err # NoError THEN R
    ELSE IF currentNode = NoNode THEN Throw(R, "TypeError")
    ELSE LET R0 == Logged(R, [op |-> "handleNode", w |-> currentNode,
                              from |-> NodeOf(R, currentNode), to |-> NodeOf(R, newNode),
                              by |-> "handleNode"])
         IN
         IF getKind(R, currentNode) # getKind(R, newNode)
         THEN Throw(R0, "InvalidOperationError")
         ELSE LET R1 == handleNodeLoop(R0, ctx,
                            getCompilerChildren(R.trees, NodeOf(R, currentNode)),
                            getCompilerChildren(R.trees, NodeOf(R, newNode)), 1)
              IN  replaceCompilerNode(R1, currentNode, NodeOf(R1, newNode), "handleNode")

(* handleSyntaxListLoop with the cursor advanced over the inserted range.  *)
RECURSIVE handleSyntaxListLoopAdvance(_, _, _, _, _, _)
handleSyntaxListLoopAdvance(R, ctx, curCh, newWs, i, c) ==
    IF R.err # NoError \/ i >= Len(newWs) THEN R
    ELSE IF i >= ctx.childIndex /\ i < ctx.childIndex + ctx.insertItemsCount
    THEN handleSyntaxListLoopAdvance(R, ctx, curCh, newWs, i + 1, c + 1)
    ELSE LET cur == IF c <= Len(curCh)
                    THEN getNodeFromCompilerNode(R, curCh[c])
                    ELSE [R |-> R, w |-> NoNode]
         IN  handleSyntaxListLoopAdvance(handleNode(cur.R, ctx, cur.w, newWs[i + 1]),
                                         ctx, curCh, newWs, i + 1, c + 1)

(* handleSyntaxListLoop with the inserted range taken one child too late.  *)
RECURSIVE handleSyntaxListLoopLate(_, _, _, _, _, _)
handleSyntaxListLoopLate(R, ctx, curCh, newWs, i, c) ==
    IF R.err # NoError \/ i >= Len(newWs) THEN R
    ELSE IF i > ctx.childIndex /\ i <= ctx.childIndex + ctx.insertItemsCount
    THEN handleSyntaxListLoopLate(R, ctx, curCh, newWs, i + 1, c)
    ELSE LET cur == IF c <= Len(curCh)
                    THEN getNodeFromCompilerNode(R, curCh[c])
                    ELSE [R |-> R, w |-> NoNode]
         IN  handleSyntaxListLoopLate(handleNode(cur.R, ctx, cur.w, newWs[i + 1]),
                                      ctx, curCh, newWs, i + 1, c + 1)

(* The for loop of handleSyntaxList at child i (0-based) of newNode; c is  *)
(* the number of children currentNodeChildren has yielded, plus one.       *)
handleSyntaxListLoop(R, ctx, curCh, newWs, i, c) ==
    IF R.err # NoError \/ i >= Len(newWs) THEN R
    ELSE IF i >= ctx.childIndex /\ i < ctx.childIndex + ctx.insertItemsCount
    THEN handleSyntaxListLoop(R, ctx, curCh, newWs, i + 1, c)
    ELSE LET cur == IF c <= Len(curCh)
                    THEN getNodeFromCompilerNode(R, curCh[c])
                    ELSE [R |-> R, w |-> NoNode]
         IN  handleSyntaxListLoop(handleNode(cur.R, ctx, cur.w, newWs[i + 1]),
                                  ctx, curCh, newWs, i + 1, c + 1)

(* handleSyntaxList with replaceCompilerNode made before the children are *)
(* walked.                                                                 *)
handleSyntaxListReplaceFirst(R, ctx, currentNode, newNode) ==
    IF R.err # NoError THEN R
    ELSE IF currentNode = NoNode THEN Throw(R, "TypeError")
    ELSE LET R0 == Logged(R, [op |-> "handleSyntaxList", w |-> currentNode,
                              from |-> NodeOf(R, currentNode), to |-> NodeOf(R, newNode),
                              by |-> "handleSyntaxList"])
             nc == getChildren(R0, newNode)
         IN  handleSyntaxListLoop(
                 replaceCompilerNode(nc.R, currentNode, NodeOf(nc.R, newNode),
                                     "handleSyntaxList"),
                 ctx, getCompilerChildren(R.trees, NodeOf(R, currentNode)), nc.ws, 0, 1)

(* handleSyntaxList without its closing replaceCompilerNode. *)
handleSyntaxListNoReplace(R, ctx, currentNode, newNode) ==
    IF R.err # NoError THEN R
    ELSE IF currentNode = NoNode THEN Throw(R, "TypeError")
    ELSE LET R0 == Logged(R, [op |-> "handleSyntaxList", w |-> currentNode,
                              from |-> NodeOf(R, currentNode), to |-> NodeOf(R, newNode),
                              by |-> "handleSyntaxList"])
             nc == getChildren(R0, newNode)
         IN  handleSyntaxListLoop(nc.R, ctx,
                 getCompilerChildren(R.trees, NodeOf(R, currentNode)), nc.ws, 0, 1)

handleSyntaxList(R, ctx, currentNode, newNode) ==
    IF R.err # NoError THEN R
    ELSE IF currentNode = NoNode THEN Throw(R, "TypeError")
    ELSE LET R0 == Logged(R, [op |-> "handleSyntaxList", w |-> currentNode,
                              from |-> NodeOf(R, currentNode), to |-> NodeOf(R, newNode),
                              by |-> "handleSyntaxList"])
             nc == getChildren(R0, newNode)
             R1 == handleSyntaxListLoop(nc.R, ctx,
                       getCompilerChildren(R.trees, NodeOf(R, currentNode)), nc.ws, 0, 1)
         IN  replaceCompilerNode(R1, currentNode, NodeOf(R1, newNode), "handleSyntaxList")

-----------------------------------------------------------------------------
(* StraightReplacementNodeHandler. *)

RECURSIVE straightHandleNode(_, _, _)
RECURSIVE straightLoop(_, _, _, _)

(* NodeHandlerHelper.handleForValues: the handler is given the wrapper of  *)
(* the current compiler node and the new node.                             *)
handleForValues(R, currentCompilerNode, newNode) ==
    LET cur == getNodeFromCompilerNode(R, currentCompilerNode)
    IN  straightHandleNode(cur.R, cur.w, newNode)

(* The for loop of handleNode at the j-th compiler child of currentNode;   *)
(* newCh are the compiler children newNodeChildren iterates over.          *)
straightLoop(R, curCh, newCh, j) ==
    IF R.err # NoError \/ j > Len(curCh) THEN R
    ELSE LET nw == IF j <= Len(newCh)
                   THEN getNodeFromCompilerNode(R, newCh[j])
                   ELSE [R |-> R, w |-> NoNode]
         IN  straightLoop(handleForValues(nw.R, curCh[j], nw.w), curCh, newCh, j + 1)

straightHandleNode(R, currentNode, newNode) ==
    IF R.err # NoError THEN R
    ELSE IF newNode = NoNode THEN Throw(R, "TypeError")
    ELSE LET R0 == Logged(R, [op |-> "handleNode", w |-> currentNode,
                              from |-> NodeOf(R, currentNode), to |-> NodeOf(R, newNode),
                              by |-> "straight"])
             curCh == getCompilerChildren(R.trees, NodeOf(R, currentNode))
             newCh == getCompilerChildren(R.trees, NodeOf(R, newNode))
         IN
         IF getKind(R, currentNode) # getKind(R, newNode)
         THEN Throw(R0, "InvalidOperationError")
         ELSE LET R1 == straightLoop(R0, curCh, newCh, 1)
              IN  IF R1.err # NoError THEN R1
                  ELSE IF Len(newCh) > Len(curCh)
                  THEN Throw(getNodeFromCompilerNode(R1, newCh[Len(curCh) + 1]).R, "Error")
                  ELSE replaceCompilerNode(R1, currentNode, NodeOf(R1, newNode), "straight")

-----------------------------------------------------------------------------
(* The removal of children from a list.                                    *)

(* forget of the registry: the wrapper and every wrapper of a node below   *)
(* its node are marked forgotten and leave the cache.                      *)
RECURSIVE forgetFrom(_, _, _)
forgetFrom(R, n, v) ==
    IF v > Len(R.ws) THEN R
    ELSE IF ~R.ws[v].forgotten /\ IsUnder(R.ws[v].node, n)
    THEN forgetFrom(Logged([R EXCEPT !.ws[v].forgotten = TRUE],
                           [op |-> "forget", w |-> v, from |-> R.ws[v].node,
                            to |-> R.ws[v].node, by |-> "forget"]),
                    n, v + 1)
    ELSE forgetFrom(R, n, v + 1)

(* forget without the removal of the wrappers from the cache. *)
forgetKeepMapping(R, w) ==
    forgetFrom(R, NodeOf(R, w), 1)

forget(R, w) ==
    LET n == NodeOf(R, w)
    IN  [forgetFrom(R, n, 1) EXCEPT !.cache = CacheDrop(@, {m \in DOMAIN @ : IsUnder(m, n)})]

RECURSIVE removalHandleNode(_, _, _, _)
RECURSIVE removalHandleNodeLoop(_, _, _, _, _)
RECURSIVE removalHandleSyntaxListLoop(_, _, _, _, _, _)

(* The pairs of children of a node, the j-th with the j-th; the pair of    *)
(* the target list goes to the splice reconciler.                          *)
removalHandleNodeLoop(R, ctx, curWs, newCh, j) ==
    IF R.err # NoError \/ j > Len(curWs) THEN R
    ELSE removalHandleNodeLoop(removalHandleNode(R, ctx, curWs[j], newCh[j]),
                               ctx, curWs, newCh, j + 1)

(* The splice loop with the removed range taken one child too late. *)
RECURSIVE removalHandleSyntaxListLoopLate(_, _, _, _, _, _)
removalHandleSyntaxListLoopLate(R, ctx, curWs, newCh, c, i) ==
    IF R.err # NoError THEN R
    ELSE IF c > Len(curWs)
    THEN IF i <= Len(newCh) THEN Throw(R, "Error") ELSE R
    ELSE IF c - 1 > ctx.childIndex /\ c - 1 <= ctx.childIndex + ctx.removeCount
    THEN removalHandleSyntaxListLoopLate(forget(R, curWs[c]), ctx, curWs, newCh, c + 1, i)
    ELSE IF i > Len(newCh) THEN Throw(R, "Error")
    ELSE removalHandleSyntaxListLoopLate(removalHandleNode(R, ctx, curWs[c], newCh[i]),
                                         ctx, curWs, newCh, c + 1, i + 1)

(* The splice loop at child c (1-based) of the current list and child i of *)
(* the new list: a child of the removed range is forgotten and only the    *)
(* cursor of the current list moves; any other child is paired with the    *)
(* next new child; children left over on either side are an error.         *)
removalHandleSyntaxListLoop(R, ctx, curWs, newCh, c, i) ==
    IF R.err # NoError THEN R
    ELSE IF c > Len(curWs)
    THEN IF i <= Len(newCh) THEN Throw(R, "Error") ELSE R
    ELSE IF c - 1 >= ctx.childIndex /\ c - 1 < ctx.childIndex + ctx.removeCount
    THEN removalHandleSyntaxListLoop(forget(R, curWs[c]), ctx, curWs, newCh, c + 1, i)
    ELSE IF i > Len(newCh) THEN Throw(R, "Error")
    ELSE removalHandleSyntaxListLoop(removalHandleNode(R, ctx, curWs[c], newCh[i]),
                                     ctx, curWs, newCh, c + 1, i + 1)

(* The dispatch for a wrapper and the node believed to be its counterpart: *)
(* kinds must agree, the children are paired, and the wrapper takes the    *)
(* new node after its children were walked.                                *)
removalHandleNode(R, ctx, currentNode, newNode) ==
    IF R.err # NoError THEN R
    ELSE LET R0    == Logged(R, [op |-> "handleNode", w |-> currentNode,
                                 from |-> NodeOf(R, currentNode), to |-> newNode,
                                 by |-> "removal"])
             cur   == getChildren(R0, currentNode)
             newCh == getCompilerChildren(R.trees, newNode)
         IN
         IF getKind(R, currentNode) # R.trees[newNode.rev][newNode.path].kind
         THEN Throw(R0, "InvalidOperationError")
         ELSE IF currentNode = ctx.syntaxList
         THEN replaceCompilerNode(
                  removalHandleSyntaxListLoop(cur.R, ctx, cur.ws, newCh, 1, 1),
                  currentNode, newNode, "removal")
         ELSE IF Len(cur.ws) # Len(newCh) THEN Throw(cur.R, "Error")
         ELSE replaceCompilerNode(
                  removalHandleNodeLoop(cur.R, ctx, cur.ws, newCh, 1),
                  currentNode, newNode, "removal")

-----------------------------------------------------------------------------
(* The state. *)

sourceFile == 1

Registry == [texts |-> texts, trees |-> trees, ws |-> wrappers, cache |-> cache,
             log |-> <<>>, err |-> NoError]

getFullText == texts[wrappers[sourceFile].node.rev]

Live(w) == ~wrappers[w].forgotten

(* The wrapper is the registered wrapper of a node of the tree the file    *)
(* wrapper references.                                                     *)
IsCurrent(w) ==
    /\ wrappers[w].node.rev = wrappers[sourceFile].node.rev
    /\ wrappers[w].node \in DOMAIN cache
    /\ cache[wrappers[w].node] = w

(* A host without directories or files. *)
NoFiles == [dirs |-> {}, files |-> {}]

NoArgs == [op |-> "none", insertPos |-> 0, newText |-> <<>>, syntaxList |-> NoNode,
           listNode |-> CompilerNode(0, <<>>), current |-> FALSE, childIndex |-> 0,
           insertItemsCount |-> 0, made |-> 0]

Init ==
    /\ texts \in {<<t>> : t \in InitTexts}
    /\ trees = <<Parse(texts[1])>>
    /\ wrappers = <<[node |-> CompilerNode(1, <<>>), forgotten |-> FALSE]>>
    /\ cache = (CompilerNode(1, <<>>) :> sourceFile)
    /\ held = {sourceFile}
    /\ edits = 0
    /\ removals = 0
    /\ last = NoArgs
    /\ log = <<>>
    /\ result = NoError
    /\ tasks = <<>>
    /\ fs = NoFiles

(* String.prototype.substring(start, end): both indices are brought into  *)
(* 0..length and swapped when start is the larger.                         *)
substring(text, start, end) ==
    LET Clamp(i) == IF i < 0 THEN 0 ELSE IF i > Len(text) THEN Len(text) ELSE i
        s == Clamp(start)
        e == Clamp(end)
    IN  IF s <= e THEN SubSeq(text, s + 1, e) ELSE SubSeq(text, e + 1, s)

(* The text with newText written over what follows insertPos. *)
newFileTextOverwriting(currentText, insertPos, newText) ==
    substring(currentText, 0, insertPos) \o newText
        \o substring(currentText, insertPos + Len(newText), Len(currentText))

(* newFileText: the text the temporary source file is made from. *)
newFileTextOf(currentText, insertPos, newText) ==
    substring(currentText, 0, insertPos) \o newText
        \o substring(currentText, insertPos, Len(currentText))

(* The caller navigates: node.getChildren() of a wrapper it holds. *)
Navigate(w) ==
    LET g == getChildren(Registry, w) IN
    /\ w \in held /\ Live(w)
    /\ ~({g.ws[i] : i \in 1..Len(g.ws)} \subseteq held)
    /\ wrappers' = g.R.ws
    /\ cache' = g.R.cache
    /\ held' = held \cup {g.ws[i] : i \in 1..Len(g.ws)}
    /\ UNCHANGED <<texts, trees, edits, removals, last, log, result, fs, tasks>>

(* sourceFile.getFullText() in the registry R. *)
getFullTextIn(R) == R.texts[NodeOf(R, sourceFile).rev]

(* createTempSourceFileFromText: the text is parsed and the root of the    *)
(* new tree is wrapped.                                                    *)
createTempSourceFileFromText(R, newFileText) ==
    getNodeFromCompilerNode([R EXCEPT !.texts = Append(@, newFileText),
                                      !.trees = Append(@, Parse(newFileText))],
                            CompilerNode(Len(R.trees) + 1, <<>>))

(* insertIntoSyntaxList checking childIndex after the new text was parsed. *)
insertIntoSyntaxListLate(R, insertPos, newText, syntaxList, childIndex, insertItemsCount) ==
    LET ch   == getChildren(R, syntaxList)
        par  == getParent(ch.R, syntaxList)
        ctx  == [syntaxList |-> syntaxList, syntaxListParent |-> par.w,
                 childIndex |-> childIndex, insertItemsCount |-> insertItemsCount]
        tmp  == createTempSourceFileFromText(
                    par.R, newFileTextOf(getFullTextIn(R), insertPos, newText))
    IN  IF R.err # NoError THEN R
        ELSE IF childIndex < 0 \/ childIndex > Len(ch.ws)
        THEN Throw(tmp.R, "ArgumentError")
        ELSE handleNode(tmp.R, ctx, sourceFile, tmp.w)

(* insertIntoSyntaxList(sourceFile, insertPos, newText, syntaxList,        *)
(* childIndex, insertItemsCount) in the registry R.                        *)
insertIntoSyntaxListIn(R, insertPos, newText, syntaxList, childIndex, insertItemsCount) ==
    LET ch   == getChildren(R, syntaxList)
        par  == getParent(ch.R, syntaxList)
        ctx  == [syntaxList |-> syntaxList, syntaxListParent |-> par.w,
                 childIndex |-> childIndex, insertItemsCount |-> insertItemsCount]
        currentText == getFullTextIn(R)
        newFileText == newFileTextOf(currentText, insertPos, newText)
        tmp  == createTempSourceFileFromText(par.R, newFileText)
    IN  IF R.err # NoError THEN R
        ELSE IF childIndex < 0 \/ childIndex > Len(ch.ws)
        THEN Throw(par.R, "ArgumentError")
        ELSE handleNode(tmp.R, ctx, sourceFile, tmp.w)

(* The caller calls insertIntoSyntaxList. *)
insertIntoSyntaxList(insertPos, newText, syntaxList, childIndex, insertItemsCount) ==
    LET R1   == insertIntoSyntaxListIn(Registry, insertPos, newText, syntaxList,
                                       childIndex, insertItemsCount)
        args == [op |-> "insertIntoSyntaxList", insertPos |-> insertPos, newText |-> newText,
                 syntaxList |-> syntaxList, listNode |-> wrappers[syntaxList].node,
                 current |-> IsCurrent(syntaxList),
                 childIndex |-> childIndex, insertItemsCount |-> insertItemsCount,
                 made |-> Len(wrappers)]
    IN
    /\ edits < MaxEdits
    /\ edits' = edits + 1
    /\ last' = args
    /\ texts' = R1.texts
    /\ trees' = R1.trees
    /\ wrappers' = R1.ws
    /\ cache' = R1.cache
    /\ log' = R1.log
    /\ result' = IF R1.err = NoError THEN "ok" ELSE R1.err
    /\ UNCHANGED <<held, removals, fs, tasks>>

(* insertStraight(sourceFile, insertPos, newText) in the registry R: the   *)
(* text is patched and the whole tree is replaced by the straight handler. *)
insertStraightIn(R, insertPos, newText) ==
    LET tmp == createTempSourceFileFromText(
                   R, newFileTextOf(getFullTextIn(R), insertPos, newText))
    IN  IF R.err # NoError THEN R
        ELSE straightHandleNode(tmp.R, sourceFile, tmp.w)

(* The caller calls insertStraight. *)
insertStraight(insertPos, newText) ==
    LET R1 == insertStraightIn(Registry, insertPos, newText)
    IN
    /\ edits < MaxEdits
    /\ edits' = edits + 1
    /\ last' = [NoArgs EXCEPT !.op = "insertStraight", !.insertPos = insertPos,
                              !.newText = newText, !.made = Len(wrappers)]
    /\ texts' = R1.texts
    /\ trees' = R1.trees
    /\ wrappers' = R1.ws
    /\ cache' = R1.cache
    /\ log' = R1.log
    /\ result' = IF R1.err = NoError THEN "ok" ELSE R1.err
    /\ UNCHANGED <<held, removals, fs, tasks>>

-----------------------------------------------------------------------------
(* StatementedNode: insertEnums. *)

(* Array.prototype.slice(start, end) for 0 <= start. *)
slice(seq, start, end) ==
    SubSeq(seq, start + 1, IF end > Len(seq) THEN Len(seq) ELSE end)

(* The last of the wrappers ws that is of the kind, NoNode when none is. *)
lastOfKind(R, ws, kind) ==
    LET S == {i \in DOMAIN ws : getKind(R, ws[i]) = kind}
    IN  IF S = {} THEN NoNode ELSE ws[CHOOSE i \in S : \A j \in S : j <= i]

(* node.getRequiredChildSyntaxList(). *)
getRequiredChildSyntaxList(R, node) ==
    LET found(ch, w) ==
            [R |-> IF w = NoNode THEN Throw(ch.R, "InvalidOperationError") ELSE ch.R,
             w |-> w]
        among(ch) == found(ch, lastOfKind(ch.R, ch.ws, "SyntaxList"))
    IN  among(getChildren(R, node))

(* The codes one after the other, the separator before each when first is  *)
(* false and before each but the first otherwise.                          *)
RECURSIVE joinCodes(_, _, _)
joinCodes(codes, separator, first) ==
    IF codes = <<>> THEN <<>>
    ELSE (IF first THEN <<>> ELSE separator) \o Head(codes)
             \o joinCodes(Tail(codes), separator, FALSE)

(* insertIntoBracesOrSourceFile: the codes are written after the child     *)
(* before index, or where the list starts, and the list is reconciled by   *)
(* insertIntoSyntaxList.                                                   *)
insertIntoBracesOrSourceFile(R, syntaxList, children, index, childCodes, separator) ==
    LET insertPos == IF index = 0 THEN getPos(R, syntaxList)
                     ELSE InfoOf(R, children[index]).end
        newText   == joinCodes(childCodes, separator, index = 0)
                       \o (IF index = 0 /\ children # <<>> /\ childCodes # <<>>
                           THEN separator ELSE <<>>)
    IN  insertIntoSyntaxListIn(R, insertPos, newText, syntaxList, index, Len(childCodes))

(* verifyAndGetIndex(index, length) for 0 <= index: the index, refused when *)
(* it is above length.                                                     *)
verifyAndGetIndex(index, length) == [threw |-> index > length, index |-> index]

(* _insertMainChildren returning the children without looking at their     *)
(* kinds.                                                                  *)
insertMainChildrenNoKindCheck(R, this, index, childCodes, expectedSyntaxKind) ==
    LET sliced(newMainChildren) ==
            [R |-> newMainChildren.R,
             children |-> slice(newMainChildren.ws, index, index + Len(childCodes))]
        inserted(syntaxList, R1) ==
            IF R1.err # NoError THEN [R |-> R1, children |-> <<>>]
            ELSE sliced(getChildren(R1, syntaxList))
        among(syntaxList, mainChildren) ==
            IF verifyAndGetIndex(index, Len(mainChildren.ws)).threw
            THEN [R |-> Throw(mainChildren.R, "ArgumentOutOfRangeError"), children |-> <<>>]
            ELSE inserted(syntaxList,
                     insertIntoBracesOrSourceFile(mainChildren.R, syntaxList,
                         mainChildren.ws, index, childCodes, <<" ">>))
        into(syntaxList) ==
            IF syntaxList.R.err # NoError THEN [R |-> syntaxList.R, children |-> <<>>]
            ELSE among(syntaxList.w, getChildren(syntaxList.R, syntaxList.w))
    IN  into(getRequiredChildSyntaxList(R, this))

(* _insertMainChildren with the slice taken one child too far. *)
insertMainChildrenSliceLate(R, this, index, childCodes, expectedSyntaxKind) ==
    LET checked(R2, children) ==
            IF \E i \in DOMAIN children : getKind(R2, children[i]) # expectedSyntaxKind
            THEN [R |-> Throw(R2, "NotImplementedError"), children |-> <<>>]
            ELSE [R |-> R2, children |-> children]
        sliced(newMainChildren) ==
            checked(newMainChildren.R,
                    slice(newMainChildren.ws, index + 1, index + 1 + Len(childCodes)))
        inserted(syntaxList, R1) ==
            IF R1.err # NoError THEN [R |-> R1, children |-> <<>>]
            ELSE sliced(getChildren(R1, syntaxList))
        among(syntaxList, mainChildren) ==
            inserted(syntaxList,
                     insertIntoBracesOrSourceFile(mainChildren.R, syntaxList,
                         mainChildren.ws, index, childCodes, <<" ">>))
        into(syntaxList) ==
            IF syntaxList.R.err # NoError THEN [R |-> syntaxList.R, children |-> <<>>]
            ELSE among(syntaxList.w, getChildren(syntaxList.R, syntaxList.w))
    IN  into(getRequiredChildSyntaxList(R, this))

(* _insertMainChildren(sourceFile, index, childCodes, expectedSyntaxKind): *)
(* from its last line up, the kind check of the children, the slice of     *)
(* newMainChildren, the insertion among mainChildren and the syntaxList.   *)
insertMainChildren(R, this, index, childCodes, expectedSyntaxKind) ==
    LET checked(R2, children) ==
            IF \E i \in DOMAIN children : getKind(R2, children[i]) # expectedSyntaxKind
            THEN [R |-> Throw(R2, "NotImplementedError"), children |-> <<>>]
            ELSE [R |-> R2, children |-> children]
        sliced(newMainChildren) ==
            checked(newMainChildren.R,
                    slice(newMainChildren.ws, index, index + Len(childCodes)))
        inserted(syntaxList, R1) ==
            IF R1.err # NoError THEN [R |-> R1, children |-> <<>>]
            ELSE sliced(getChildren(R1, syntaxList))
        among(syntaxList, mainChildren) ==
            IF verifyAndGetIndex(index, Len(mainChildren.ws)).threw
            THEN [R |-> Throw(mainChildren.R, "ArgumentOutOfRangeError"), children |-> <<>>]
            ELSE inserted(syntaxList,
                     insertIntoBracesOrSourceFile(mainChildren.R, syntaxList,
                         mainChildren.ws, index, childCodes, <<" ">>))
        into(syntaxList) ==
            IF syntaxList.R.err # NoError THEN [R |-> syntaxList.R, children |-> <<>>]
            ELSE among(syntaxList.w, getChildren(syntaxList.R, syntaxList.w))
    IN  into(getRequiredChildSyntaxList(R, this))

(* EnumDeclaration.addMember: the member is written after the last member *)
(* of the declaration and its member list is reconciled.                   *)
addMember(R, newChild, member) ==
    LET among(syntaxList, members) ==
            insertIntoBracesOrSourceFile(members.R, syntaxList, members.ws,
                                         Len(members.ws), <<<<member>>>>, <<" ">>)
        into(syntaxList) ==
            IF syntaxList.R.err # NoError THEN syntaxList.R
            ELSE among(syntaxList.w, getChildren(syntaxList.R, syntaxList.w))
    IN  IF R.err # NoError THEN R
        ELSE into(getRequiredChildSyntaxList(R, newChild))

(* The members of the structures from structure i on, each with the index *)
(* of its structure, in the order the loops of insertEnums visit them.     *)
RECURSIVE membersFrom(_, _)
membersFrom(structures, i) ==
    IF i > Len(structures) THEN <<>>
    ELSE [m \in DOMAIN structures[i].members |->
             [i |-> i, member |-> structures[i].members[m]]]
         \o membersFrom(structures, i + 1)

(* The loops of insertEnums after the first k calls of addMember. *)
RECURSIVE addMembers(_, _, _, _)
addMembers(R, newChildren, todo, k) ==
    LET next(before) ==
            IF before.err # NoError THEN before
            ELSE addMember(before, newChildren[todo[k].i], todo[k].member)
    IN  IF k = 0 THEN R
        ELSE next(addMembers(R, newChildren, todo, k - 1))

(* insertEnums(index, structures, sourceFile) of the node this. *)
insertEnumsIn(R, this, index, structures) ==
    LET codes == [i \in DOMAIN structures |-> <<"c", "{", "}">>]
        members(newChildren, todo) ==
            [R |-> IF newChildren.R.err # NoError THEN newChildren.R
                   ELSE addMembers(newChildren.R, newChildren.children, todo, Len(todo)),
             children |-> newChildren.children]
    IN  members(insertMainChildren(R, this, index, codes, "ClassDeclaration"),
                membersFrom(structures, 1))

(* The removal of removeCount children of syntaxList from child childIndex *)
(* on: the text from the pos of the first to the end of the last is cut,   *)
(* the file is reparsed and the tree is reconciled, the removed children   *)
(* being forgotten.  When the trees do not match nothing is replaced, the  *)
(* list is forgotten and the error is raised.                              *)
removeNodes(syntaxList, childIndex, removeCount) ==
    LET ch   == getChildren(Registry, syntaxList)
        ctx  == [syntaxList |-> syntaxList, childIndex |-> childIndex,
                 removeCount |-> removeCount]
        currentText == getFullText
        removeStart == getPos(ch.R, ch.ws[childIndex + 1])
        removeEnd   == InfoOf(ch.R, ch.ws[childIndex + removeCount]).end
        newFileText == SubSeq(currentText, 1, removeStart)
                         \o SubSeq(currentText, removeEnd + 1, Len(currentText))
        rev  == Len(trees) + 1
        R0   == [ch.R EXCEPT !.texts = Append(@, newFileText),
                             !.trees = Append(@, Parse(newFileText))]
        R1   == removalHandleNode(R0, ctx, sourceFile, CompilerNode(rev, <<>>))
        R2   == IF R1.err = NoError THEN R1
                ELSE [forget(R0, syntaxList) EXCEPT !.err = R1.err]
    IN
    /\ removals < MaxRemovals
    /\ edits = 0
    /\ childIndex >= 0 /\ removeCount >= 1
    /\ childIndex + removeCount <= Len(ch.ws)
    /\ removals' = removals + 1
    /\ last' = [op |-> "removeNodes", syntaxList |-> syntaxList,
                listNode |-> wrappers[syntaxList].node, current |-> IsCurrent(syntaxList),
                childIndex |-> childIndex, removeCount |-> removeCount,
                made |-> Len(wrappers)]
    /\ texts' = R2.texts
    /\ trees' = R2.trees
    /\ wrappers' = R2.ws
    /\ cache' = R2.cache
    /\ log' = R2.log
    /\ result' = IF R2.err = NoError THEN "ok" ELSE R2.err
    /\ UNCHANGED <<held, edits, fs, tasks>>

-----------------------------------------------------------------------------
(* FileUtils. *)

(* A path is a root, "/" or ".", and the names below it: "/a/b" is         *)
(* [root |-> "/", segs |-> <<"a", "b">>] and "a" is [root |-> ".", ...].    *)
Roots    == {"/", "."}
DirNames == {"a", "b"}

(* The sequences of at most n elements of S. *)
SeqUpTo(S, n) == UNION {[1..m -> S] : m \in 0..n}

Paths == {[root |-> r, segs |-> q] : r \in Roots, q \in SeqUpTo(DirNames, MaxDepth)}

(* path.dirname: the path without its last name; a root is its own dirname. *)
dirname(p) ==
    IF p.segs = <<>> THEN p
    ELSE [p EXCEPT !.segs = SubSeq(p.segs, 1, Len(p.segs) - 1)]

FilePaths(F) == {f.path : f \in F.files}

(* The host's directoryExistsSync. *)
directoryExistsSync(F, dirPath) == dirPath \in F.dirs

(* The host's mkdirSync: the call is noted; it throws when something is at *)
(* the path or nothing is at its parent.                                   *)
mkdirSync(F, dirPath) ==
    LET F1 == [F EXCEPT !.calls = Append(@, [op |-> "mkdirSync", path |-> dirPath])]
    IN  IF dirPath \in F.dirs \cup FilePaths(F) THEN [F1 EXCEPT !.err = "EEXIST"]
        ELSE IF dirname(dirPath) \notin F.dirs THEN [F1 EXCEPT !.err = "ENOENT"]
        ELSE [F1 EXCEPT !.dirs = @ \cup {dirPath}]

(* ensureDirectoryExistsSync with the directory made before its parent. *)
RECURSIVE ensureDirectoryExistsSyncChildFirst(_, _)
ensureDirectoryExistsSyncChildFirst(F, dirPath) ==
    IF F.err # NoError \/ directoryExistsSync(F, dirPath) THEN F
    ELSE LET parentDirPath == dirname(dirPath)
             F1 == mkdirSync(F, dirPath)
         IN  IF F1.err = NoError /\ parentDirPath # dirPath
                    /\ dirname(parentDirPath) # parentDirPath
             THEN ensureDirectoryExistsSyncChildFirst(F1, parentDirPath)
             ELSE F1

(* FileUtils.ensureDirectoryExistsSync(fileSystemWrapper, dirPath); F is   *)
(* the host's file system with the calls made of it and the error thrown.  *)
RECURSIVE ensureDirectoryExistsSyncIn(_, _)
ensureDirectoryExistsSyncIn(F, dirPath) ==
    IF F.err # NoError \/ directoryExistsSync(F, dirPath) THEN F
    ELSE LET parentDirPath == dirname(dirPath)
             F1 == IF parentDirPath # dirPath /\ dirname(parentDirPath) # parentDirPath
                   THEN ensureDirectoryExistsSyncIn(F, parentDirPath)
                   ELSE F
         IN  IF F1.err # NoError THEN F1 ELSE mkdirSync(F1, dirPath)

ENOENT == "ENOENT"

(* What a call ends with: a value returned or an error thrown.  A value is *)
(* a string or false, an error has a code (NoCode when it has none).       *)
NoCode == "none"
Returned(text) == [threw |-> FALSE, isFalse |-> FALSE, text |-> text, code |-> NoCode]
ReturnedFalse  == [threw |-> FALSE, isFalse |-> TRUE, text |-> "", code |-> NoCode]
Thrown(code, message) == [threw |-> TRUE, isFalse |-> FALSE, text |-> message, code |-> code]

(* FileUtils.isNotExistsError(err). *)
isNotExistsError(err) == err.code = ENOENT

(* readFileOrNotExistsSync with every error turned into false. *)
readFileOrNotExistsSyncAnyError(outcome) ==
    IF ~outcome.threw THEN outcome ELSE ReturnedFalse

(* FileUtils.readFileOrNotExistsSync, outcome being how readFileSync ended. *)
readFileOrNotExistsSyncOf(outcome) ==
    IF ~outcome.threw THEN outcome
    ELSE IF ~isNotExistsError(outcome) THEN outcome
    ELSE ReturnedFalse

(* FileUtils.readFileOrNotExists, outcome being how the promise of readFile *)
(* was settled: the await inside try turns a rejection into a throw, and   *)
(* the async function turns its own throw into a rejection.                *)
readFileOrNotExistsOf(outcome) ==
    IF ~outcome.threw THEN outcome
    ELSE IF ~isNotExistsError(outcome) THEN outcome
    ELSE ReturnedFalse

(* The host's readFile and readFileSync: the text of a file, or an error   *)
(* with the code of what is at the path; failed is an error of the host    *)
(* for a file that is there (NoError when it reads).                       *)
readFileSync(F, filePath, failed) ==
    IF filePath \in F.dirs THEN Thrown("EISDIR", "is a directory")
    ELSE IF filePath \notin FilePaths(F) THEN Thrown(ENOENT, "no such file")
    ELSE IF failed # NoError THEN Thrown(failed, "cannot read")
    ELSE Returned((CHOOSE f \in F.files : f.path = filePath).text)

(* The byte order mark, one UTF-16 code unit, and the texts made of it and *)
(* of other code units.                                                    *)
bom == "\\ufeff"
BomTexts == SeqUpTo({bom, "a", "b"}, MaxTextLen)

(* getTextWithByteOrderMark with the mark put before every text. *)
getTextWithByteOrderMarkAlways(text) ==
    <<bom>> \o text

(* FileUtils.getTextWithByteOrderMark(text); text[0] of the empty text is  *)
(* undefined.                                                              *)
getTextWithByteOrderMark(text) ==
    IF Len(text) > 0 /\ text[1] = bom THEN text
    ELSE <<bom>> \o text

(* The caller calls insertEnums on a source file or a block it holds. *)
insertEnums(this, index, structures) ==
    /\ edits < MaxEdits
    /\ \E done \in {insertEnumsIn(Registry, this, index, structures)} :
         LET R1 == done.R IN
         /\ edits' = edits + 1
         /\ last' = [op |-> "insertEnums", this |-> this, index |-> index,
                     structures |-> structures, made |-> Len(wrappers),
                     syntaxList |-> getRequiredChildSyntaxList(Registry, this).w,
                     returned |-> IF R1.err = NoError THEN done.children ELSE <<>>]
         /\ texts' = R1.texts
         /\ trees' = R1.trees
         /\ wrappers' = R1.ws
         /\ cache' = R1.cache
         /\ log' = R1.log
         /\ result' = IF R1.err = NoError THEN "ok" ELSE R1.err
         /\ held' = IF R1.err = NoError
                    THEN held \cup {done.children[i] : i \in DOMAIN done.children}
                    ELSE held
         /\ UNCHANGED <<removals, fs, tasks>>

(* A method of the node this calls _insertMainChildren. *)
callInsertMainChildren(this, index, childCodes, expectedSyntaxKind) ==
    /\ edits < MaxEdits
    /\ \E done \in {insertMainChildren(Registry, this, index, childCodes,
                                        expectedSyntaxKind)} :
         LET R1         == done.R
             syntaxList == getRequiredChildSyntaxList(Registry, this)
         IN
         /\ edits' = edits + 1
         /\ last' = [op |-> "_insertMainChildren", this |-> this, index |-> index,
                     childCodes |-> childCodes,
                     expectedSyntaxKind |-> expectedSyntaxKind,
                     made |-> Len(wrappers), revs |-> Len(texts),
                     syntaxList |-> syntaxList.w,
                     count |-> Len(getChildren(syntaxList.R, syntaxList.w).ws),
                     returned |-> IF R1.err = NoError THEN done.children ELSE <<>>]
         /\ texts' = R1.texts
         /\ trees' = R1.trees
         /\ wrappers' = R1.ws
         /\ cache' = R1.cache
         /\ log' = R1.log
         /\ result' = IF R1.err = NoError THEN "ok" ELSE R1.err
         /\ held' = IF R1.err = NoError
                    THEN held \cup {done.children[i] : i \in DOMAIN done.children}
                    ELSE held
    /\ UNCHANGED <<removals, fs, tasks>>

(* The caller calls FileUtils.ensureDirectoryExistsSync. *)
ensureDirectoryExistsSync(dirPath) ==
    /\ edits < MaxEdits
    /\ \E F \in {ensureDirectoryExistsSyncIn(
                     [dirs |-> fs.dirs, files |-> fs.files, calls |-> <<>>,
                      err |-> NoError], dirPath)} :
         /\ edits' = edits + 1
         /\ last' = [op |-> "ensureDirectoryExistsSync", dirPath |-> dirPath,
                     before |-> fs.dirs]
         /\ fs' = [dirs |-> F.dirs, files |-> F.files]
         /\ log' = F.calls
         /\ result' = IF F.err = NoError THEN "ok" ELSE F.err
    /\ UNCHANGED <<texts, trees, wrappers, cache, held, removals, tasks>>

(* The caller calls FileUtils.readFileOrNotExistsSync (sync) or awaits     *)
(* FileUtils.readFileOrNotExists.                                          *)
readFileOrNotExists(filePath, sync, failed) ==
    LET outcome == readFileSync(fs, filePath, failed)
    IN
    /\ edits < MaxEdits
    /\ edits' = edits + 1
    /\ last' = [op |-> "readFileOrNotExists", filePath |-> filePath, sync |-> sync,
                outcome |-> outcome,
                returned |-> IF sync THEN readFileOrNotExistsSyncOf(outcome)
                             ELSE readFileOrNotExistsOf(outcome)]
    /\ log' = <<>>
    /\ result' = IF last'.returned.threw THEN last'.returned.code ELSE "ok"
    /\ UNCHANGED <<texts, trees, wrappers, cache, held, removals, fs, tasks>>

(* The caller calls FileUtils.getTextWithByteOrderMark, and calls it again *)
(* on what it returned.                                                    *)
callGetTextWithByteOrderMark(text) ==
    /\ edits < MaxEdits
    /\ edits' = edits + 1
    /\ last' = [op |-> "getTextWithByteOrderMark", text |-> text,
                returned |-> getTextWithByteOrderMark(text),
                again |-> getTextWithByteOrderMark(getTextWithByteOrderMark(text))]
    /\ log' = <<>>
    /\ result' = "ok"
    /\ UNCHANGED <<texts, trees, wrappers, cache, held, removals, fs, tasks>>

Next ==
    \/ \E w \in held : Navigate(w)
    \/ \E newText \in NewTexts, insertPos \in 0..Len(getFullText) :
         insertStraight(insertPos, newText)
    \/ \E syntaxList \in held, newText \in NewTexts, insertItemsCount \in 0..MaxItems :
         /\ Live(syntaxList)
         /\ getKind(Registry, syntaxList) = "SyntaxList"
         /\ \E insertPos \in 0..Len(getFullText),
               childIndex \in -1..(NumChildren(trees[wrappers[syntaxList].node.rev],
                                               wrappers[syntaxList].node.path) + 1) :
              insertIntoSyntaxList(insertPos, newText, syntaxList, childIndex, insertItemsCount)

Spec == Init /\ [][Next]_vars

(* A file that children are removed from and that is edited afterwards. *)
InitRemoval ==
    /\ texts \in {<<t>> : t \in RemovalInitTexts}
    /\ trees = <<Parse(texts[1])>>
    /\ wrappers = <<[node |-> CompilerNode(1, <<>>), forgotten |-> FALSE]>>
    /\ cache = (CompilerNode(1, <<>>) :> sourceFile)
    /\ held = {sourceFile}
    /\ edits = 0
    /\ removals = 0
    /\ last = NoArgs
    /\ log = <<>>
    /\ result = NoError
    /\ tasks = <<>>
    /\ fs = NoFiles

NextRemoval ==
    \/ \E w \in held : Navigate(w)
    \/ \E syntaxList \in held, removeCount \in 1..MaxItems :
         /\ Live(syntaxList)
         /\ getKind(Registry, syntaxList) = "SyntaxList"
         /\ \E childIndex \in 0..NumChildren(trees[wrappers[syntaxList].node.rev],
                                              wrappers[syntaxList].node.path) :
              removeNodes(syntaxList, childIndex, removeCount)
    \/ \E syntaxList \in held, newText \in RemovalNewTexts, insertItemsCount \in 0..1 :
         /\ Live(syntaxList)
         /\ getKind(Registry, syntaxList) = "SyntaxList"
         /\ \E insertPos \in 0..Len(getFullText),
               childIndex \in 0..NumChildren(trees[wrappers[syntaxList].node.rev],
                                              wrappers[syntaxList].node.path) :
              insertIntoSyntaxList(insertPos, newText, syntaxList, childIndex, insertItemsCount)

SpecRemoval == InitRemoval /\ [][NextRemoval]_vars

(* A file that declarations are inserted into. *)
InitEnums ==
    /\ texts \in {<<t>> : t \in EnumInitTexts}
    /\ trees = <<Parse(texts[1])>>
    /\ wrappers = <<[node |-> CompilerNode(1, <<>>), forgotten |-> FALSE]>>
    /\ cache = (CompilerNode(1, <<>>) :> sourceFile)
    /\ held = {sourceFile}
    /\ edits = 0
    /\ removals = 0
    /\ last = NoArgs
    /\ log = <<>>
    /\ result = NoError
    /\ tasks = <<>>
    /\ fs = NoFiles

(* The codes and the kinds _insertMainChildren is called with. *)
ChildCodes    == { <<";">>, <<"x">>, <<"c", "{", "}">> }
ExpectedKinds == {"EmptyStatement", "ExpressionStatement", "ClassDeclaration"}

EnumStructures == SeqUpTo([members : SeqUpTo(MemberTexts, MaxMembers)], MaxItems)

(* The caller navigates, then inserts; what it holds afterwards is in last. *)
NextEnums ==
    \/ \E w \in held : edits = 0 /\ Navigate(w)
    \/ \E this \in held, structures \in EnumStructures :
         /\ Live(this)
         /\ getKind(Registry, this) \in {"SourceFile", "Block"}
         /\ LET syntaxList == getRequiredChildSyntaxList(Registry, this)
            IN  \E index \in 0..Len(getChildren(syntaxList.R, syntaxList.w).ws) :
                    insertEnums(this, index, structures)
    \/ \E this \in held, childCodes \in SeqUpTo(ChildCodes, MaxItems),
          expectedSyntaxKind \in ExpectedKinds :
         /\ Live(this)
         /\ getKind(Registry, this) \in {"SourceFile", "Block"}
         /\ LET syntaxList == getRequiredChildSyntaxList(Registry, this)
            IN  \E index \in 0..(Len(getChildren(syntaxList.R, syntaxList.w).ws) + 1) :
                    callInsertMainChildren(this, index, childCodes, expectedSyntaxKind)

SpecEnums == InitEnums /\ [][NextEnums]_vars

(* The hosts the file utilities are called on: the roots are there, a      *)
(* directory is in a directory, and at most one file is in a directory.    *)
InitDirPaths == {p \in Paths : Len(p.segs) <= (IF p.root = "/" THEN 2 ELSE 1)}

InitFileSystems ==
    {[dirs |-> D, files |-> F] :
        D \in {X \in SUBSET InitDirPaths :
                  /\ \A p \in Paths : p.segs = <<>> => p \in X
                  /\ \A p \in X : dirname(p) \in X},
        F \in {{}} \cup {{[path |-> p, text |-> t]} :
                            p \in {q \in InitDirPaths : q.root = "/"}, t \in {"", "t"}}}

InitFiles ==
    /\ fs \in {f \in InitFileSystems :
                  \A p \in FilePaths(f) : p \notin f.dirs /\ dirname(p) \in f.dirs}
    /\ texts = <<<<>>>>
    /\ trees = <<Parse(texts[1])>>
    /\ wrappers = <<[node |-> CompilerNode(1, <<>>), forgotten |-> FALSE]>>
    /\ cache = (CompilerNode(1, <<>>) :> sourceFile)
    /\ held = {sourceFile}
    /\ edits = 0
    /\ removals = 0
    /\ last = NoArgs
    /\ log = <<>>
    /\ result = NoError
    /\ tasks = <<>>

NextFiles ==
    \/ \E dirPath \in Paths : ensureDirectoryExistsSync(dirPath)
    \/ \E filePath \in InitDirPaths, sync \in BOOLEAN,
          failed \in {NoError, "EACCES", NoCode} :
         readFileOrNotExists(filePath, sync, failed)
    \/ \E text \in BomTexts : callGetTextWithByteOrderMark(text)

SpecFiles == InitFiles /\ [][NextFiles]_vars

(* The asynchronous FileUtils.ensureDirectoryExists, called MaxTasks times  *)
(* without awaiting: each call is a stack of frames, one per nested call,   *)
(* and a frame stands at the await it is suspended at.                      *)
AsyncPaths == {p \in Paths : p.root = "/"}

AsyncFileSystems ==
    {f \in InitFileSystems : f.files = {} /\ \A p \in f.dirs : p.root = "/" \/ p.segs = <<>>}

(* A call of ensureDirectoryExists(host, dirPath) up to its first await. *)
Pending(dirPath) ==
    [frames |-> <<[dirPath |-> dirPath, pc |-> "directoryExists"]>>, outcome |-> "pending"]

(* The top frame returns: the frame below it resumes after its await of the *)
(* nested call, at host.mkdir; the call is fulfilled when no frame is left. *)
Return(task) ==
    LET rest == SubSeq(task.frames, 1, Len(task.frames) - 1)
    IN  IF rest = <<>> THEN [frames |-> <<>>, outcome |-> "ok"]
        ELSE [frames |-> [rest EXCEPT ![Len(rest)].pc = "mkdir"], outcome |-> "pending"]

(* An awaited promise is rejected: no frame catches, the call is rejected. *)
Reject(code) == [frames |-> <<>>, outcome |-> code]

(* The top frame of task t resumes from await host.directoryExists(dirPath) *)
(* with the answer of the host: it returns, or calls itself for the parent, *)
(* or goes on to host.mkdir.                                                *)
directoryExists(t) ==
    /\ tasks[t].frames # <<>>
    /\ LET frames        == tasks[t].frames
           top           == frames[Len(frames)]
           dirPath       == top.dirPath
           parentDirPath == dirname(dirPath)
       IN  /\ top.pc = "directoryExists"
           /\ tasks' = [tasks EXCEPT ![t] =
                 IF dirPath \in fs.dirs THEN Return(tasks[t])
                 ELSE IF parentDirPath # dirPath /\ dirname(parentDirPath) # parentDirPath
                 THEN [frames |-> Append([frames EXCEPT ![Len(frames)].pc = "ensureDirectoryExists"],
                                         [dirPath |-> parentDirPath, pc |-> "directoryExists"]),
                       outcome |-> "pending"]
                 ELSE [frames |-> [frames EXCEPT ![Len(frames)].pc = "mkdir"],
                       outcome |-> "pending"]]
    /\ UNCHANGED <<texts, trees, wrappers, cache, held, edits, removals, last, log, result, fs>>

(* The host carries out the host.mkdir(dirPath) the top frame of task t     *)
(* awaits: the call is noted with what was at the path; it is rejected when *)
(* something is at the path or nothing is at its parent.                    *)
mkdir(t) ==
    /\ tasks[t].frames # <<>>
    /\ LET frames  == tasks[t].frames
           dirPath == frames[Len(frames)].dirPath
       IN  /\ frames[Len(frames)].pc = "mkdir"
           /\ log' = Append(log, [op |-> "mkdir", path |-> dirPath, task |-> t,
                                  existed |-> dirPath \in fs.dirs])
           /\ IF dirPath \in fs.dirs \cup FilePaths(fs)
              THEN /\ tasks' = [tasks EXCEPT ![t] = Reject("EEXIST")]
                   /\ fs' = fs
              ELSE IF dirname(dirPath) \notin fs.dirs
              THEN /\ tasks' = [tasks EXCEPT ![t] = Reject("ENOENT")]
                   /\ fs' = fs
              ELSE /\ tasks' = [tasks EXCEPT ![t] = Return(tasks[t])]
                   /\ fs' = [fs EXCEPT !.dirs = @ \cup {dirPath}]
    /\ UNCHANGED <<texts, trees, wrappers, cache, held, edits, removals, last, result>>

InitAsync ==
    /\ fs \in AsyncFileSystems
    /\ tasks \in [1..MaxTasks -> {Pending(p) : p \in AsyncPaths}]
    /\ texts = <<<<>>>>
    /\ trees = <<Parse(texts[1])>>
    /\ wrappers = <<[node |-> CompilerNode(1, <<>>), forgotten |-> FALSE]>>
    /\ cache = (CompilerNode(1, <<>>) :> sourceFile)
    /\ held = {sourceFile}
    /\ edits = 0
    /\ removals = 0
    /\ last = NoArgs
    /\ log = <<>>
    /\ result = "none"

NextAsync ==
    \/ \E t \in DOMAIN tasks : directoryExists(t)
    \/ \E t \in DOMAIN tasks : mkdir(t)

SpecAsync == InitAsync /\ [][NextAsync]_vars


(* The pairs of a node replaceCompilerNode took from a wrapper and the node *)
(* it gave to it, over the calls made in the registry R.                    *)
Replaced(R) ==
    {<<R.log[e].from, R.log[e].to>> : e \in {i \in DOMAIN R.log : R.log[i].op = "replace"}}

(* What a walk left: its error, the calls of handleSyntaxList it made, the  *)
(* nodes it replaced and the wrappers that existed before it.               *)
Outcome(R, made) ==
    [err      |-> R.err,
     lists    |-> Cardinality({i \in DOMAIN R.log : R.log[i].op = "handleSyntaxList"}),
     replaced |-> Replaced(R),
     ws       |-> SubSeq(R.ws, 1, made)]

(* The file and the tree of newFileText are given to the handleNode of      *)
(* insertIntoSyntaxList, for the list syntaxList, and to the handleNode of  *)
(* StraightReplacementNodeHandler, each from the same registry; the         *)
(* registry goes on from the first.                                         *)
handleNodes(tmp, made, ctx, insertPos, newText) ==
    \E R1 \in {handleNode(tmp.R, ctx, sourceFile, tmp.w)},
       R2 \in {straightHandleNode(tmp.R, sourceFile, tmp.w)} :
         /\ edits' = edits + 1
         /\ last' = [NoArgs EXCEPT !.op = "handleNode", !.insertPos = insertPos,
                                   !.newText = newText, !.syntaxList = ctx.syntaxList,
                                   !.made = made]
                       @@ [inList |-> Outcome(R1, made), straight |-> Outcome(R2, made)]
         /\ texts' = R1.texts
         /\ trees' = R1.trees
         /\ wrappers' = R1.ws
         /\ cache' = R1.cache
         /\ log' = R1.log
         /\ result' = IF R1.err = NoError THEN "ok" ELSE R1.err
         /\ UNCHANGED <<held, removals, fs, tasks>>

(* The two handlers are called for the file after an insertion. *)
callHandleNodes(insertPos, newText, syntaxList) ==
    /\ edits < MaxEdits
    /\ LET par == getParent(Registry, syntaxList)
       IN  handleNodes(createTempSourceFileFromText(
                           par.R, newFileTextOf(getFullText, insertPos, newText)),
                       Len(wrappers),
                       [syntaxList |-> syntaxList, syntaxListParent |-> par.w,
                        childIndex |-> 0, insertItemsCount |-> 0],
                       insertPos, newText)

(* The texts inserted: those of NewTexts and the start of a comment. *)
HandlerNewTexts == NewTexts \cup { <<"/">> }

NextHandlers ==
    \/ \E w \in held : Navigate(w)
    \/ \E syntaxList \in held, newText \in HandlerNewTexts,
          insertPos \in 0..Len(getFullText) :
         /\ Live(syntaxList)
         /\ getKind(Registry, syntaxList) = "SyntaxList"
         /\ callHandleNodes(insertPos, newText, syntaxList)

SpecHandlers == Init /\ [][NextHandlers]_vars

-----------------------------------------------------------------------------
(* What the claims speak of. *)

KindAt(n)   == trees[n.rev][n.path].kind
KidsOf(n)   == getCompilerChildren(trees, n)
Events(op)  == {i \in DOMAIN log : log[i].op = op}
Inserted    == last.op = "insertIntoSyntaxList" /\ result # "ArgumentError"
Walked      == Inserted \/ last.op = "insertStraight"
WalkFailed  == Walked /\ result # "ok"
NewRev      == Len(trees)
(* The wrappers that existed when the last manipulation was called. *)
PreEdit     == 1..last.made
(* The node of the new tree at the place the target list had. *)
NewList     == CompilerNode(NewRev, last.listNode.path)
(* The last manipulation was a successful insertIntoSyntaxList into a list *)
(* of the file's tree, and the new tree has at that place a list of        *)
(* insertItemsCount more children: that many children were inserted.       *)
InsertedAsDeclared ==
    /\ Inserted /\ result = "ok"
    /\ last.current
    /\ NewList.path \in DOMAIN trees[NewRev]
    /\ KindAt(NewList) = "SyntaxList"
    /\ Len(KidsOf(NewList)) = Len(KidsOf(last.listNode)) + last.insertItemsCount

(* C1: after an insertIntoSyntaxList that succeeds, every wrapper that     *)
(* existed before it is not forgotten and references a node of the freshly *)
(* parsed tree.                                                            *)
C1_IdentityPreservation ==
    (Inserted /\ result = "ok") =>
        \A w \in PreEdit : Live(w) /\ wrappers[w].node.rev = NewRev

(* C2: after an insertion of insertItemsCount children at childIndex into  *)
(* a list of the file's tree, every wrapper that was child i of the list   *)
(* is child i of the list when i < childIndex, and child                   *)
(* i + insertItemsCount otherwise.                                         *)
C2_InsertionIsolation ==
    [][ (edits' = edits + 1 /\ InsertedAsDeclared') =>
          LET L       == last'.syntaxList
              o       == last'.childIndex
              k       == last'.insertItemsCount
              oldKids == getCompilerChildren(trees, wrappers[L].node)
              newKids == getCompilerChildren(trees', wrappers'[L].node)
          IN  \A i \in 0..(Len(oldKids) - 1) :
                  oldKids[i + 1] \in DOMAIN cache =>
                      LET j == IF i < o THEN i ELSE i + k
                      IN  /\ j < Len(newKids)
                          /\ newKids[j + 1] \in DOMAIN cache'
                          /\ cache'[newKids[j + 1]] = cache[oldKids[i + 1]]
      ]_vars

C2_Witness ==
    /\ InsertedAsDeclared
    /\ last.insertItemsCount >= 1
    /\ last.childIndex >= 1
    /\ last.childIndex < Len(KidsOf(last.listNode))
    /\ \A c \in DOMAIN KidsOf(last.listNode) :
           \E i \in Events("replace") :
               log[i].from = KidsOf(last.listNode)[c] /\ log[i].w \in PreEdit

(* The wrapper took, in the last manipulation, the place of the wrapper of *)
(* a child the target list had before it.                                  *)
HadCounterpart(w) ==
    \E i \in Events("replace") :
        /\ log[i].w = w
        /\ \E c \in DOMAIN KidsOf(last.listNode) : log[i].from = KidsOf(last.listNode)[c]

(* C10: after a successful insertion of insertItemsCount children at       *)
(* childIndex into a list of n children, the list wrapper is on the new    *)
(* list of n + insertItemsCount children, and the children that have no    *)
(* counterpart from before the edit are exactly those at the indices from  *)
(* childIndex to childIndex + insertItemsCount - 1.                        *)
C10_InsertedRange ==
    InsertedAsDeclared =>
        LET kids == KidsOf(NewList)
            o    == last.childIndex
            k    == last.insertItemsCount
        IN  /\ wrappers[last.syntaxList].node = NewList
            /\ \A j \in 0..(Len(kids) - 1) :
                   /\ kids[j + 1] \in DOMAIN cache
                   /\ (j >= o /\ j < o + k) <=> ~HadCounterpart(cache[kids[j + 1]])

C10_Witness ==
    /\ InsertedAsDeclared
    /\ last.insertItemsCount = 2
    /\ last.childIndex = 1
    /\ Len(KidsOf(last.listNode)) = 2

(* C3: when handleSyntaxList is given a new list whose number of children  *)
(* minus insertItemsCount is not the number of children of the current     *)
(* list, the edit does not return normally.                                *)
C3_MismatchRejection ==
    \A i \in Events("handleSyntaxList") :
        Len(KidsOf(log[i].to)) - last.insertItemsCount # Len(KidsOf(log[i].from))
            => result # "ok"

(* C4: after a walk that raised an error, it is not the case that some     *)
(* live wrappers of before the edit reference nodes of the new tree while  *)
(* others still reference nodes of an older tree.                          *)
C4_Atomicity ==
    WalkFailed =>
        ~ \E w1, w2 \in PreEdit :
            /\ Live(w1) /\ wrappers[w1].node.rev = NewRev
            /\ Live(w2) /\ wrappers[w2].node.rev # NewRev

(* C5: when insertIntoSyntaxList returns normally no live wrapper still    *)
(* references a node of an old tree.                                       *)
C5_NoStaleWrapper ==
    (Inserted /\ result = "ok") =>
        \A w \in DOMAIN wrappers : Live(w) => wrappers[w].node.rev = NewRev

(* C6: two distinct live wrappers never reference the same node.           *)
C6_OneWrapperPerNode ==
    \A w1, w2 \in DOMAIN wrappers :
        (w1 # w2 /\ Live(w1) /\ Live(w2)) => wrappers[w1].node # wrappers[w2].node

(* C7: a handleNode given a wrapper and a new node of different kinds ends *)
(* the manipulation with an InvalidOperationError, and no                  *)
(* replaceCompilerNode is made for the pair or below the new node.         *)
C7_KindMismatchFatal ==
    \A i \in Events("handleNode") :
        KindAt(log[i].from) # KindAt(log[i].to) =>
            /\ result = "InvalidOperationError"
            /\ \A j \in DOMAIN log :
                   log[j].op \in {"replace", "badReplace"} =>
                       /\ ~(j > i /\ log[j].w = log[i].w)
                       /\ ~IsUnder(log[j].to, log[i].to)

C7_Witness ==
    /\ Inserted /\ result = "InvalidOperationError"
    /\ Events("replace") # {}
    /\ \E i \in Events("handleNode") : KindAt(log[i].from) # KindAt(log[i].to)

(* C8: a handleNode whose wrapper and new node have different numbers of   *)
(* children does not complete: the manipulation fails.                     *)
C8_ChildCountFatal ==
    \A i \in Events("handleNode") :
        Len(KidsOf(log[i].from)) # Len(KidsOf(log[i].to)) => result # "ok"

(* C9: an insertIntoSyntaxList that returns normally has called            *)
(* handleSyntaxList exactly once, and with the wrapper syntaxList.         *)
C9_TargetListDispatch ==
    (Inserted /\ result = "ok") =>
        /\ Cardinality(Events("handleSyntaxList")) = 1
        /\ \A i \in Events("handleSyntaxList") : log[i].w = last.syntaxList

(* C11: an insertIntoSyntaxList of the empty text and of no items, at a    *)
(* childIndex in range, returns normally and leaves the file text as it    *)
(* was; every wrapper of the file's tree is the wrapper of the node at the *)
(* same place of the new tree, which has the same kind, offsets and        *)
(* children, and the wrappers of its children are the ones they were.      *)
C11_IdempotentNoOp ==
    [][ ( /\ edits' = edits + 1
          /\ last'.op = "insertIntoSyntaxList"
          /\ last'.newText = <<>> /\ last'.insertItemsCount = 0
          /\ result' # "ArgumentError" )
        => /\ result' = "ok"
           /\ texts'[wrappers'[sourceFile].node.rev] = getFullText
           /\ \A w \in DOMAIN wrappers :
                 (Live(w) /\ IsCurrent(w)) =>
                   LET old == wrappers[w].node
                       new == wrappers'[w].node
                   IN  /\ ~wrappers'[w].forgotten
                       /\ new = CompilerNode(Len(trees'), old.path)
                       /\ new \in DOMAIN cache' /\ cache'[new] = w
                       /\ trees'[new.rev][new.path] = trees[old.rev][old.path]
                       /\ Len(getCompilerChildren(trees', new))
                            = Len(getCompilerChildren(trees, old))
                       /\ \A i \in DOMAIN getCompilerChildren(trees, old) :
                             LET oc == getCompilerChildren(trees, old)[i]
                                 nc == getCompilerChildren(trees', new)[i]
                             IN  oc \in DOMAIN cache =>
                                   nc \in DOMAIN cache' /\ cache'[nc] = cache[oc]
      ]_vars

C11_Witness ==
    /\ Inserted /\ result = "ok"
    /\ last.newText = <<>> /\ last.insertItemsCount = 0
    /\ last.childIndex >= 1
    /\ last.made >= 5
    /\ \A w \in PreEdit : wrappers[w].node.rev = NewRev

(* C12: after a walk that returns normally the file wrapper is the wrapper *)
(* of the root of the freshly parsed tree; after a walk that raised an     *)
(* error the file wrapper does not reference that root.                    *)
C12_FileWrapperRoot ==
    /\ (Walked /\ result = "ok") =>
          /\ Live(sourceFile)
          /\ wrappers[sourceFile].node = CompilerNode(NewRev, <<>>)
          /\ CompilerNode(NewRev, <<>>) \in DOMAIN cache
          /\ cache[CompilerNode(NewRev, <<>>)] = sourceFile
    /\ WalkFailed => wrappers[sourceFile].node # CompilerNode(NewRev, <<>>)

(* A walk failed after it had replaced the nodes of some wrappers. *)
C12_Witness ==
    /\ WalkFailed
    /\ Events("replace") # {}
    /\ wrappers[sourceFile].node.rev = NewRev - 1

(* C13: every replaceCompilerNode call of a walk is made with a wrapper    *)
(* and a new node of the same kind.                                        *)
C13_SameKindReplace ==
    \A i \in DOMAIN log :
        log[i].op \in {"replace", "badReplace"} =>
            KindAt(log[i].from) = KindAt(log[i].to)

(* C14: a wrapper that is forgotten keeps its node and stays forgotten in  *)
(* every later step, is not in the cache, and within a manipulation no     *)
(* replaceCompilerNode is made for a wrapper after it was forgotten.       *)
C14_ForgottenTerminal ==
    [][ /\ \A w \in DOMAIN wrappers :
              wrappers[w].forgotten => wrappers'[w] = wrappers[w]
        /\ \A w \in DOMAIN wrappers' :
              wrappers'[w].forgotten => \A n \in DOMAIN cache' : cache'[n] # w
        /\ \A i, j \in DOMAIN log' :
              (i < j /\ log'[i].op = "forget" /\ log'[j].op \in {"replace", "badReplace"})
                  => log'[j].w # log'[i].w
      ]_vars

(* An insertion walked the tree of a file after children of it had been    *)
(* removed and their wrappers forgotten.                                   *)
C14_Witness ==
    /\ removals = 1
    /\ Inserted /\ result = "ok"
    /\ Events("replace") # {}
    /\ \E w \in PreEdit : wrappers[w].forgotten

(* C15: a removal of removeCount children of a list from childIndex on     *)
(* that returns normally leaves the list with that many children fewer;    *)
(* the wrappers forgotten by it are exactly the wrappers of the removed    *)
(* children and of the nodes below them, and the wrapper of every other    *)
(* child i is the wrapper of child i of the new list when i < childIndex   *)
(* and of child i - removeCount otherwise.                                 *)
C15_RemovalIsolation ==
    [][ (removals' = removals + 1 /\ result' = "ok") =>
          LET L       == last'.syntaxList
              o       == last'.childIndex
              k       == last'.removeCount
              oldKids == getCompilerChildren(trees, wrappers[L].node)
              newKids == getCompilerChildren(trees', wrappers'[L].node)
              removed == {oldKids[i + 1] : i \in o..(o + k - 1)}
          IN  /\ wrappers'[L].node.rev = Len(trees')
              /\ Len(newKids) = Len(oldKids) - k
              /\ \A v \in DOMAIN wrappers :
                    wrappers'[v].forgotten <=>
                        \/ wrappers[v].forgotten
                        \/ \E n \in removed : IsUnder(wrappers[v].node, n)
              /\ \A i \in 0..(Len(oldKids) - 1) :
                    (oldKids[i + 1] \in DOMAIN cache /\ oldKids[i + 1] \notin removed) =>
                        LET j == IF i < o THEN i ELSE i - k
                        IN  /\ newKids[j + 1] \in DOMAIN cache'
                            /\ cache'[newKids[j + 1]] = cache[oldKids[i + 1]]
      ]_vars

(* The middle child of three was removed when all wrappers had been made. *)
C15_Witness ==
    /\ last.op = "removeNodes" /\ result = "ok"
    /\ last.childIndex = 1 /\ last.removeCount = 1
    /\ Len(KidsOf(last.listNode)) = 3
    /\ last.made >= 10
    /\ Cardinality({w \in PreEdit : wrappers[w].forgotten}) = 1
    /\ Cardinality({w \in PreEdit : ~wrappers[w].forgotten /\ wrappers[w].node.rev = NewRev}) = 9

(* C16: the text an insertIntoSyntaxList has parsed is the text of the     *)
(* file up to insertPos, then newText, then the text of the file from      *)
(* insertPos on: it is longer by the length of newText and every character *)
(* of the file is in it, in order.                                         *)
C16_TextPatch ==
    [][ ( /\ edits' = edits + 1
          /\ last'.op = "insertIntoSyntaxList"
          /\ result' # "ArgumentError" )
        => LET original == getFullText
               patched  == texts'[Len(texts')]
               p        == last'.insertPos
               t        == last'.newText
           IN  /\ Len(texts') = Len(texts) + 1
               /\ trees'[Len(trees')] = Parse(patched)
               /\ Len(patched) = Len(original) + Len(t)
               /\ \A i \in 1..Len(patched) :
                     patched[i] = IF i <= p THEN original[i]
                                  ELSE IF i <= p + Len(t) THEN t[i - p]
                                  ELSE original[i - Len(t)]
      ]_vars

C16_Witness ==
    /\ Inserted
    /\ Len(last.newText) >= 2
    /\ last.insertPos >= 1
    /\ last.insertPos < Len(texts[NewRev]) - Len(last.newText)

Ancestors(p) ==
    {[p EXCEPT !.segs = SubSeq(p.segs, 1, k)] : k \in 1..(Len(p.segs) - 1)}

(* C19: ensureDirectoryExistsSync ends; when it returns, dirPath and every *)
(* ancestor of it but the root exist; mkdirSync is called only for         *)
(* directories that did not exist, each once at most, a parent before its  *)
(* child, and not at all when dirPath exists.                              *)
C19_EnsureDirectoryExists ==
    last.op = "ensureDirectoryExistsSync" =>
        /\ result = "ok" =>
              /\ last.dirPath \in fs.dirs
              /\ Ancestors(last.dirPath) \subseteq fs.dirs
        /\ (\A p \in Ancestors(last.dirPath) \cup {last.dirPath} :
                p \notin FilePaths(fs)) => result = "ok"
        /\ \A k \in DOMAIN log :
              /\ log[k].path \notin last.before
              /\ log[k].path \in Ancestors(last.dirPath) \cup {last.dirPath}
              /\ \A j \in DOMAIN log : j < k =>
                    /\ log[j].path # log[k].path
                    /\ log[k].path \notin Ancestors(log[j].path)
              /\ k < Len(log) => log[k].path \in fs.dirs
        /\ fs.dirs = last.before \cup {log[k].path : k \in {j \in DOMAIN log :
                                                             j < Len(log) \/ result = "ok"}}
        /\ last.dirPath \in last.before => log = <<>>

(* A directory three names deep was made below a root that had none. *)
C19_Witness ==
    /\ last.op = "ensureDirectoryExistsSync" /\ result = "ok"
    /\ Len(last.dirPath.segs) = MaxDepth
    /\ Len(log) = MaxDepth

C22_ByteOrderMark ==
    last.op = "getTextWithByteOrderMark" =>
        /\ Len(last.returned) > 0 /\ last.returned[1] = bom
        /\ (Len(last.text) > 0 /\ last.text[1] = bom) => last.returned = last.text
        /\ ~(Len(last.text) > 0 /\ last.text[1] = bom)
              => last.returned = <<bom>> \o last.text
        /\ last.again = last.returned

(* The function was given a text that starts with the mark and has a       *)
(* second mark further on.                                                 *)
C22_Witness ==
    /\ last.op = "getTextWithByteOrderMark"
    /\ Len(last.text) = MaxTextLen
    /\ last.text[1] = bom /\ last.text[MaxTextLen] = bom

(* C23: in handleSyntaxList no child of the new list at an index from      *)
(* childIndex up to childIndex + insertItemsCount is given to handleNode   *)
(* or to replaceCompilerNode; every other child of the new list is given   *)
(* to handleNode once at most, with the child of the current list that     *)
(* has its rank among the children outside that range, and once exactly    *)
(* when the walk succeeds.                                                 *)
C23_CursorPairing ==
    Inserted =>
        \A e \in Events("handleSyntaxList") :
            LET oldKids == KidsOf(log[e].from)
                newKids == KidsOf(log[e].to)
                o       == last.childIndex
                k       == last.insertItemsCount
            IN  \A i \in 0..(Len(newKids) - 1) :
                    LET paired   == {n \in Events("handleNode") : log[n].to = newKids[i + 1]}
                        replaced == {n \in Events("replace") : log[n].to = newKids[i + 1]}
                        j        == IF i < o THEN i ELSE i - k
                    IN  IF i >= o /\ i < o + k
                        THEN paired = {} /\ replaced = {}
                        ELSE /\ Cardinality(paired) <= 1
                             /\ \A n \in paired :
                                   j < Len(oldKids) /\ log[n].from = oldKids[j + 1]
                             /\ result = "ok" => Cardinality(paired) = 1

(* A list was walked that has a child before the inserted range and a      *)
(* child after it.                                                         *)
C23_Witness ==
    /\ Inserted /\ result = "ok"
    /\ last.insertItemsCount >= 1 /\ last.childIndex >= 1
    /\ \E e \in Events("handleSyntaxList") :
          Len(KidsOf(log[e].to)) > last.childIndex + last.insertItemsCount

(* The node m is below the node n. *)
Below(m, n) == m.rev = n.rev /\ m.path # n.path /\ IsPrefix(n.path, m.path)

(* C24: in the order of the calls of a walk, a wrapper is given its new    *)
(* node after every wrapper whose node is below its node, in the current   *)
(* tree or in the new one, was given its own, and after every pairing made *)
(* below it; the target list is replaced after its children, and nothing   *)
(* follows the replacement of the file wrapper.                            *)
C24_PostOrder ==
    Walked =>
        \A n \in Events("replace") :
            /\ \A m \in Events("replace") :
                  (Below(log[m].to, log[n].to) \/ Below(log[m].from, log[n].from)) => m < n
            /\ \A m \in Events("handleNode") \cup Events("handleSyntaxList") :
                  Below(log[m].to, log[n].to) => m < n
            /\ log[n].w = sourceFile => n = Len(log)

(* A successful walk replaced the target list, a child of it and a node    *)
(* below that child.                                                       *)
C24_Witness ==
    /\ Inserted /\ result = "ok"
    /\ \E n, m, d \in Events("replace") :
          /\ log[n].by = "handleSyntaxList"
          /\ Below(log[m].to, log[n].to)
          /\ Below(log[d].to, log[m].to)

(* C25: a walk of insertIntoSyntaxList ends, with a result or an error; in  *)
(* it no node of the new tree is passed to handleNode or handleSyntaxList   *)
(* twice, there are no more such calls than the new tree has nodes, no      *)
(* wrapper is given a node by replaceCompilerNode twice, and no node of the *)
(* new tree is given to two wrappers.                                       *)
C25_SinglePass ==
    Inserted =>
        LET calls == Events("handleNode") \cup Events("handleSyntaxList")
        IN  /\ result \in {"ok", "TypeError", "InvalidOperationError",
                            "KindMismatchError"}
            /\ \A n, m \in calls : log[n].to = log[m].to => n = m
            /\ \A n \in calls : log[n].to.rev = NewRev
            /\ Cardinality(calls) <= Cardinality(DOMAIN trees[NewRev])
            /\ \A n, m \in Events("replace") :
                  (log[n].w = log[m].w \/ log[n].to = log[m].to) => n = m
            /\ \A n \in Events("replace") : log[n].to.rev = NewRev

(* A successful walk gave new nodes to three wrappers at least that existed *)
(* before the edit, below the file wrapper and through a target list.       *)
C25_Witness ==
    /\ Inserted /\ result = "ok"
    /\ Events("handleSyntaxList") # {}
    /\ Cardinality({n \in Events("replace") : log[n].w \in PreEdit}) >= 3

(* C26: insertIntoSyntaxList throws ArgumentError exactly when childIndex   *)
(* is below 0 or above the number of children the list has; a childIndex    *)
(* equal to that number is accepted.  On this error no text was added and   *)
(* nothing parsed, no call of the walk was made, and every wrapper and      *)
(* every entry of the cache is as it was.                                   *)
C26_IndexRange ==
    [][ ( /\ edits' = edits + 1
          /\ last'.op = "insertIntoSyntaxList" )
        => LET count == Len(KidsOf(wrappers[last'.syntaxList].node))
           IN  /\ result' = "ArgumentError"
                     <=> (last'.childIndex < 0 \/ last'.childIndex > count)
               /\ result' = "ArgumentError"
                     => /\ texts' = texts
                        /\ trees' = trees
                        /\ log' = <<>>
                        /\ \A w \in DOMAIN wrappers : wrappers'[w] = wrappers[w]
                        /\ \A m \in DOMAIN cache : m \in DOMAIN cache' /\ cache'[m] = cache[m]
      ]_vars

(* An insertIntoSyntaxList into a list that has a child, of a text that is  *)
(* not empty and at a childIndex above the number of its children, threw    *)
(* ArgumentError.                                                          *)
C26_Witness ==
    /\ last.op = "insertIntoSyntaxList" /\ result = "ArgumentError"
    /\ last.newText # <<>>
    /\ Len(KidsOf(last.listNode)) >= 1
    /\ last.childIndex = Len(KidsOf(last.listNode)) + 1

(* C27: of the calls of ensureDirectoryExists that run together, none calls *)
(* host.mkdir for a directory that exists when the call is made, and no     *)
(* directory is passed to host.mkdir twice.                                 *)
C27_CreatedOnce ==
    \A i \in Events("mkdir") :
        /\ ~log[i].existed
        /\ \A j \in Events("mkdir") : log[j].path = log[i].path => i = j

C29_HandlersAgree ==
    (last.op = "handleNode" /\ last.inList.lists = 0) =>
        /\ (last.inList.err = NoError) <=> (last.straight.err = NoError)
        /\ last.inList.err = NoError =>
              /\ last.inList.replaced = last.straight.replaced
              /\ last.inList.ws = last.straight.ws

====
